---- MODULE Spec2Model ----
(***************************************************************************)
(* JAStream (fervqz/just-a-stream): a push-based stream that wraps a       *)
(* generator function and exposes filter / map / reduce / merge, a last    *)
(* value and a bounded buffer.                                             *)
(*                                                                         *)
(* JavaScript runs every host task to completion, so one subscribe() call  *)
(* on a chain of synchronous generators is one step of the machine: the    *)
(* closures the operators build are unfolded by the recursive operators    *)
(* below exactly as the calls nest in the source.                          *)
(*                                                                         *)
(* A closure "next" is a sequence of frames, outermost callback first:     *)
(* calling it runs the head frame, which may call the rest.  A frame       *)
(* [op, fn, id] is one of the arrow functions of the source together with  *)
(* what it captured (a predicate, mapper or reducer name; a stream, a      *)
(* listener or the cell holding "let acc").                                *)
(***************************************************************************)
EXTENDS Integers, Sequences, FiniteSets, TLC

\* ------------------------------------------------------------------ bounds
MaxLen == 2          \* longest array handed to from() / emitted by a generator
MaxStreams == 3      \* JAStream objects constructed in one run
MaxCalls == 2        \* subscribe() calls made by the user in one run
MaxBufferSize == 2   \* largest options.bufferSize tried

\* ------------------------------------------------------------- constants
BetaBufferSize == 10   \* the literal of this.buffer.slice(0, 10) in the beta class

\* ------------------------------------------------------------------ inputs
Values == {1, 2}
Arrays == UNION {[1..n -> Values] : n \in 0..MaxLen}

\* the functions the user hands to filter / map / reduce, by name
Predicates == {"even", "odd", "any"}
Mappers == {"double", "inc"}
Reducers == {"sum", "max"}
Seeds == {0, 5}

\* a callback the user wrote so that it fails on one value:
\* (x) => { if (x === 2) throw new Error(); ... }
Throwing == {"throwOn2"}
throws(fn, x) == fn = "throwOn2" /\ x = 2

\* x => x % 2 === 0 (the tests' predicate), x => x % 2 === 1, x => true
pred(fn, x) ==
    CASE fn = "even" -> x % 2 = 0
      [] fn = "odd"  -> x % 2 = 1
      [] fn = "any"  -> TRUE
      [] fn = "throwOn2" -> TRUE
\* x => x * 2 (the tests' mapper), x => x + 1
mapFn(fn, x) ==
    CASE fn = "double" -> x * 2
      [] fn = "inc"    -> x + 1
      [] fn = "throwOn2" -> x * 2
\* (acc, x) => acc + x (the tests' reducer), (acc, x) => Math.max(acc, x)
reducer(fn, acc, x) ==
    CASE fn = "sum" -> acc + x
      [] fn = "max" -> IF x > acc THEN x ELSE acc
      [] fn = "throwOn2" -> acc + x

\* "T | undefined": the empty sequence is undefined, <<v>> is the value v
undefined == <<>>
Some(v) == <<v>>

\* JAStreamOptions, or no options argument at all (the empty sequence); an
\* options object may leave a field out
NoOptions == <<>>
Options ==
    {NoOptions} \cup
    {<<[useBuffer |-> u, bufferSize |-> k]>> : u \in BOOLEAN, k \in 1..MaxBufferSize} \cup
    {<<[useBuffer |-> u]>> : u \in BOOLEAN} \cup
    {<<[bufferSize |-> k]>> : k \in 1..MaxBufferSize}

\* a field the options object does not have reads as undefined.  For the
\* number bufferSize, undefined is kept as Absent, a value no bufferSize is.
Absent == 0 - 1

\* ------------------------------------------------------------------- state
VARIABLES
    streams,   \* the JAStream objects, by identity 1..Len(streams)
    cells,     \* the "let acc" variables captured by reduce's closures
    calls,     \* the user's subscribe() calls, each with its listener's log
    trace,     \* the order in which generators and callbacks were invoked
    tasks,     \* the timers the generators registered with the host
    ret        \* what the last getLast() / getBuffer() call gave its caller, and
               \* how long the trace was when it was made; for getBuffer() also
               \* what the returned array holds by now (held)

vars == <<streams, cells, calls, trace, tasks, ret>>

\* Array.prototype.slice(start) with one argument
slice(arr, start) ==
    LET n == Len(arr)
        from == IF start < 0
                  THEN (IF n + start < 0 THEN 0 ELSE n + start)
                  ELSE (IF start > n THEN n ELSE start)
    IN  SubSeq(arr, from + 1, n)

\* The repository holds two versions of the class.  "options" is the one the
\* README and the tests describe (constructor options, bounded buffer);
\* "beta" is src/index.ts, whose buffer is always on and has no options.

\* class JAStream ("options"): field initialisers and the constructor
JAStream(generator, options) ==
    [version    |-> "options",
     generator  |-> generator,
     last       |-> undefined,
     useBuffer  |-> IF options = NoOptions THEN FALSE
                    ELSE IF "useBuffer" \in DOMAIN options[1] THEN options[1].useBuffer
                    ELSE FALSE,   \* undefined: every test of it takes the false branch
     buffer     |-> <<>>,
     bufferSize |-> IF options = NoOptions THEN 1
                    ELSE IF "bufferSize" \in DOMAIN options[1] THEN options[1].bufferSize
                    ELSE Absent]

\* class JAStream ("beta"): it has no useBuffer and no bufferSize field, which
\* read as undefined; they are kept here as FALSE and 0 and never used
JAStreamBeta(generator) ==
    [version    |-> "beta",
     generator  |-> generator,
     last       |-> undefined,
     useBuffer  |-> FALSE,
     buffer     |-> <<>>,
     bufferSize |-> 0]

\* a "new JAStream(generator, options)" that hands buffering on to the streams
\* the class builds itself
newBuffering(version, generator) ==
    IF version = "beta" THEN JAStreamBeta(generator)
    ELSE JAStream(generator, <<[useBuffer |-> TRUE, bufferSize |-> 1]>>)

\* "new JAStream(generator)" inside the file that defines the class
new(version, generator) ==
    IF version = "beta" THEN JAStreamBeta(generator)
    ELSE JAStream(generator, NoOptions)

\* the generator closures the source builds; src are the streams they capture
Generator(kind, src, fn, seed, xs) ==
    [kind |-> kind, src |-> src, fn |-> fn, seed |-> seed, xs |-> xs]

Frame(op, fn, id) == [op |-> op, fn |-> fn, id |-> id]
Event(ev, id, v) == [ev |-> ev, id |-> id, v |-> v]

\* getLast(): return this.last
getLast(S) == S.last

\* getBuffer(): return this.buffer when useBuffer, otherwise throw new Error(...)
getBuffer(S) ==
    IF S.useBuffer
      THEN [threw |-> FALSE, value |-> S.buffer]
      ELSE [threw |-> TRUE, value |-> <<>>]

\* getBuffer() of the beta class: return this.buffer
getBufferBeta(S) == [threw |-> FALSE, value |-> S.buffer]

\* Array.prototype.slice(start, end) with 0 <= start <= end
slice2(arr, start, end) ==
    SubSeq(arr, start + 1, IF end > Len(arr) THEN Len(arr) ELSE end)

\* -------------------------------------------------- callbacks (one per arrow)
RECURSIVE call(_, _, _)

\* an exception leaves the callback that is running
throw(st) == [st EXCEPT !.thrown = TRUE]

\* a re-entering listener (x) => { if (x === 1) emit(2); ... }, where emit is
\* the emission callback its own subscribe call passed to the generator
Reenter == 2
reenters(fn, x) == fn = "reenter" /\ x = 1

\* the user's listener: a mock that records its argument and what the stream it
\* subscribed to shows at that moment; a failing listener throws instead, and a
\* re-entering one first invokes the emission callback of its subscription,
\* which is subscribe's callback on its stream followed by the listener itself
listener(f, x, st) ==
    LET s   == st.calls[f.id].stream
        st1 == [st EXCEPT !.trace = Append(@, Event("listener", f.id, x))]
        st2 == IF reenters(f.fn, x)
                 THEN call(<<Frame("subscribe", "", s), f>>, Reenter, st1)
                 ELSE st1
        S   == st2.streams[s]
    IN  IF throws(f.fn, x) THEN throw(st1)
        ELSE [st2 EXCEPT !.calls[f.id].log =
                  Append(@, [v |-> x, last |-> getLast(S), buffer |-> S.buffer])]

\* a subscribe that records the first value only
setLastOnce(last, x) == IF last = undefined THEN Some(x) ELSE last

\* this.last = x
setLast(last, x) == Some(x)

\* a buffer truncated to its first bufferSize entries
pushBufferFirst(buffer, x, bufferSize) ==
    slice2(Append(buffer, x), 0, bufferSize)

\* a buffer that is never truncated
pushBufferUnbounded(buffer, x, bufferSize) == Append(buffer, x)

\* this.buffer.push(x); this.buffer = this.buffer.slice(this.bufferSize * -1)
\* (undefined * -1 is NaN, and slice reads NaN as 0)
pushBuffer(buffer, x, bufferSize) ==
    slice(Append(buffer, x), IF bufferSize = Absent THEN 0 ELSE bufferSize * (-1))

\* a subscribe callback that runs the listener first and updates the stream after
subscribeCallbackListenerFirst(f, rest, x, st) ==
    LET S   == st.streams[f.id]
        st1 == call(rest, x, [st EXCEPT !.trace = Append(@, Event("emit", f.id, x))])
        st2 == [st1 EXCEPT !.streams[f.id].last = setLast(S.last, x)]
    IN  IF st1.thrown THEN st1
        ELSE IF S.useBuffer
               THEN [st2 EXCEPT !.streams[f.id].buffer = pushBuffer(@, x, S.bufferSize)]
               ELSE st2

\* a subscribe callback that restores last and buffer when the listener throws
subscribeCallbackRollback(f, rest, x, st) ==
    LET S   == st.streams[f.id]
        st1 == [st EXCEPT !.trace = Append(@, Event("emit", f.id, x)),
                          !.streams[f.id].last = setLast(S.last, x)]
        st2 == IF S.useBuffer
                 THEN [st1 EXCEPT !.streams[f.id].buffer =
                                      pushBuffer(@, x, S.bufferSize)]
                 ELSE st1
        st3 == call(rest, x, st2)
    IN  IF st3.thrown THEN [st3 EXCEPT !.streams[f.id] = S] ELSE st3

\* a subscribe callback with a guard: an emission that arrives while a listener
\* is still running is dropped
subscribeCallbackGuarded(f, rest, x, st) ==
    LET S   == st.streams[f.id]
        running == \E c \in 1..Len(st.calls) :
                       Len(SelectSeq(st.trace, LAMBDA e : e.ev = "listener" /\ e.id = c))
                           > Len(st.calls[c].log)
        st1 == [st EXCEPT !.trace = Append(@, Event("emit", f.id, x)),
                          !.streams[f.id].last = setLast(S.last, x)]
        st2 == IF S.useBuffer
                 THEN [st1 EXCEPT !.streams[f.id].buffer =
                                      pushBuffer(@, x, S.bufferSize)]
                 ELSE st1
    IN  IF running THEN st ELSE call(rest, x, st2)

\* this.buffer.push(x) as seen through the array the last getBuffer() call
\* returned: getBuffer returns this.buffer itself, so while stream s has not
\* replaced this.buffer since (r.alias), push appends to that very array; the
\* assignment of the slice, a new array, ends the aliasing
pushHeld(r, s, x) ==
    IF r.alias /\ r.stream = s
      THEN [r EXCEPT !.held = Append(@, x), !.alias = FALSE]
      ELSE r

\* subscribe's callback: (x) => { this.last = x; if (this.useBuffer) {...}; listener(x) }
subscribeCallback(f, rest, x, st) ==
    LET S   == st.streams[f.id]
        st1 == [st EXCEPT !.trace = Append(@, Event("emit", f.id, x)),
                          !.streams[f.id].last = setLast(S.last, x)]
        st2 == IF S.useBuffer
                 THEN [st1 EXCEPT !.streams[f.id].buffer =
                                      pushBuffer(@, x, S.bufferSize),
                                  !.ret = pushHeld(@, f.id, x)]
                 ELSE st1
    IN  call(rest, x, st2)

\* subscribe's callback in the beta class:
\* (x) => { this.last = x; this.buffer.push(x); this.buffer = this.buffer.slice(0, 10); listener(x) }
subscribeCallbackBeta(f, rest, x, st) ==
    LET st1 == [st EXCEPT !.trace = Append(@, Event("emit", f.id, x)),
                          !.streams[f.id].last = setLast(@, x),
                          !.streams[f.id].buffer =
                              slice2(Append(@, x), 0, BetaBufferSize),
                          !.ret = pushHeld(@, f.id, x)]
    IN  call(rest, x, st1)

\* a filter that forwards whatever the predicate says
filterCallbackAll(f, rest, x, st) == call(rest, x, st)

\* a filter that leaves a rejected value in the last value of the stream that
\* is being subscribed
filterCallbackRecording(f, rest, x, st) ==
    IF pred(f.fn, x) THEN call(rest, x, st)
    ELSE IF Head(rest).op = "subscribe"
           THEN [st EXCEPT !.streams[Head(rest).id].last = Some(x)]
           ELSE st

\* filter's callback: (x) => { if (pred(x)) next(x) }
filterCallback(f, rest, x, st) ==
    IF throws(f.fn, x) THEN throw(st)
    ELSE IF pred(f.fn, x) THEN call(rest, x, st) ELSE st

\* a map that forwards its input
mapCallbackInput(f, rest, x, st) == call(rest, x, st)

\* map's callback: (x) => { next(mapFn(x)) }
mapCallback(f, rest, x, st) ==
    IF throws(f.fn, x) THEN throw(st)
    ELSE call(rest, mapFn(f.fn, x), st)

\* a reduce that emits fn(acc, x) but never stores it
reduceCallbackNoStore(f, rest, x, st) ==
    call(rest, reducer(f.fn, st.cells[f.id], x), st)

\* reduce's callback: (x) => { acc = fn(acc, x); next(acc) }
reduceCallback(f, rest, x, st) ==
    LET acc == reducer(f.fn, st.cells[f.id], x)
    IN  IF throws(f.fn, x) THEN throw(st)
        ELSE call(rest, acc, [st EXCEPT !.cells[f.id] = acc])

\* withLatestFrom's callback on the other stream: (x) => { latest = x }
latestCallback(f, rest, x, st) == [st EXCEPT !.cells[f.id] = Some(x)]

\* a pair made of the value being emitted and the other stream's latest
pairCallbackCurrent(f, rest, y, st) ==
    call(rest, <<Some(y), st.cells[f.id]>>, st)

\* a pair that is held back until the other stream has emitted
pairCallbackWaiting(f, rest, y, st) ==
    IF st.cells[f.id] = undefined THEN st
    ELSE call(rest, <<getLast(st.streams[f.this]), st.cells[f.id]>>, st)

\* withLatestFrom's callback on this stream's generator:
\* (y) => { next([this.last, latest]) }
pairCallback(f, rest, y, st) ==
    call(rest, <<getLast(st.streams[f.this]), st.cells[f.id]>>, st)

\* calling the closure "next" with x
call(next, x, st) ==
    LET f == Head(next)
        rest == Tail(next)
    IN  CASE f.op = "listener"  -> listener(f, x, st)
          [] f.op = "subscribe" ->
                 IF st.streams[f.id].version = "beta"
                   THEN subscribeCallbackBeta(f, rest, x, st)
                   ELSE subscribeCallback(f, rest, x, st)
          [] f.op = "filter"    -> filterCallback(f, rest, x, st)
          [] f.op = "map"       -> mapCallback(f, rest, x, st)
          [] f.op = "reduce"    -> reduceCallback(f, rest, x, st)
          [] f.op = "latest"    -> latestCallback(f, rest, x, st)
          [] f.op = "pair"      -> pairCallback(f, rest, x, st)

\* ------------------------------------------------- generators (one per closure)
RECURSIVE generator(_, _, _)
RECURSIVE subscribe(_, _, _)
RECURSIVE forEach(_, _, _, _)
RECURSIVE forEachStream(_, _, _, _)

\* a forEach that catches what next throws and goes on with the next element
forEachCatching(xs, i, next, st) ==
    IF i > Len(xs) THEN st
    ELSE forEach(xs, i + 1, next, [call(next, xs[i], st) EXCEPT !.thrown = FALSE])

\* xs.forEach((x) => next(x)); an exception thrown by next ends the loop
forEach(xs, i, next, st) ==
    IF i > Len(xs) \/ st.thrown THEN st
    ELSE forEach(xs, i + 1, next, call(next, xs[i], st))

\* a from() that walks the array from its end
fromGeneratorBackwards(g, next, st) ==
    forEach([i \in 1..Len(g.xs) |-> g.xs[Len(g.xs) + 1 - i]], 1, next, st)

\* from's generator: (next) => { xs.forEach((x) => next(x)) }
fromGenerator(g, next, st) == forEach(g.xs, 1, next, st)

\* filter's generator: (next) => { this.generator((x) => { if (pred(x)) next(x) }) }
filterGenerator(g, next, st) ==
    generator(g.src[1], <<Frame("filter", g.fn, 0)>> \o next, st)

\* a map that goes through its parent's subscribe
mapGeneratorViaSubscribe(g, next, st) ==
    subscribe(g.src[1], <<Frame("map", g.fn, 0)>> \o next, st)

\* map's generator: (next) => { this.generator((x) => { next(mapFn(x)) }) }
mapGenerator(g, next, st) ==
    generator(g.src[1], <<Frame("map", g.fn, 0)>> \o next, st)

\* a reduce whose accumulator is created once and shared by every subscription
reduceGeneratorSharedAcc(g, next, st) ==
    IF st.cells = <<>>
      THEN generator(g.src[1], <<Frame("reduce", g.fn, 1)>> \o next,
                     [st EXCEPT !.cells = <<g.seed>>])
      ELSE generator(g.src[1], <<Frame("reduce", g.fn, 1)>> \o next, st)

\* a reduce whose accumulator starts from where the previous subscription's is
reduceGeneratorContinue(g, next, st) ==
    LET acc == Len(st.cells) + 1
    IN  generator(g.src[1], <<Frame("reduce", g.fn, acc)>> \o next,
                  [st EXCEPT !.cells =
                       Append(@, IF @ = <<>> THEN g.seed ELSE @[Len(@)])])

\* reduce's generator: (next) => { let acc = initialValue; this.generator(...) }
reduceGenerator(g, next, st) ==
    LET acc == Len(st.cells) + 1
    IN  generator(g.src[1], <<Frame("reduce", g.fn, acc)>> \o next,
                  [st EXCEPT !.cells = Append(@, g.seed)])

\* a forEach over the inputs that hands the callback to each input's generator
\* instead of subscribing to the input
forEachStreamGenerator(ss, i, next, st) ==
    IF i > Len(ss) \/ st.thrown THEN st
    ELSE forEachStream(ss, i + 1, next, generator(ss[i], next, st))

\* a forEach over the inputs that catches what a subscribe throws and goes on
forEachStreamCatching(ss, i, next, st) ==
    IF i > Len(ss) THEN st
    ELSE forEachStream(ss, i + 1, next,
                       [subscribe(ss[i], next, st) EXCEPT !.thrown = FALSE])

\* streams.forEach((stream) => { stream.subscribe(next) }); an exception thrown
\* by a subscribe ends the loop
forEachStream(ss, i, next, st) ==
    IF i > Len(ss) \/ st.thrown THEN st
    ELSE forEachStream(ss, i + 1, next, subscribe(ss[i], next, st))

\* a merge that subscribes to its inputs from the last to the first
mergeGeneratorReversed(g, next, st) ==
    forEachStream([i \in 1..Len(g.src) |-> g.src[Len(g.src) + 1 - i]], 1, next, st)

\* a merge that subscribes to its last input only
mergeGeneratorLastOnly(g, next, st) ==
    forEachStream(IF g.src = <<>> THEN <<>> ELSE <<g.src[Len(g.src)]>>, 1, next, st)

\* a merge that subscribes to its first input only
mergeGeneratorFirstOnly(g, next, st) ==
    forEachStream(IF g.src = <<>> THEN <<>> ELSE <<Head(g.src)>>, 1, next, st)

\* merge's generator: (next) => { streams.forEach(...) }
mergeGenerator(g, next, st) == forEachStream(g.src, 1, next, st)

\* a generator that hands its emission callback to the listener and then emits
\* an array: (next) => { emit = next; xs.forEach(x => next(x)) }
exposingGenerator(g, next, st) == forEach(g.xs, 1, next, st)

\* a generator whose new timer replaces the timers registered before
intervalGeneratorExclusive(g, next, st) ==
    [st EXCEPT !.tasks = <<[next |-> next, v |-> g.xs[1], inc |-> 0]>>]

\* the README's generator (next) => { setInterval(() => next('A'), 1000) }:
\* it registers a timer with the host and returns; the value it emits is xs[1]
intervalGenerator(g, next, st) ==
    [st EXCEPT !.tasks = Append(@, [next |-> next, v |-> g.xs[1], inc |-> 0])]

\* a counter that is shared by the invocations: a new timer goes on from where
\* the previous one stands
counterGeneratorShared(g, next, st) ==
    [st EXCEPT !.tasks =
        Append(@, [next |-> next,
                   v |-> IF st.tasks = <<>> THEN 0 ELSE st.tasks[Len(st.tasks)].v,
                   inc |-> 1])]

\* the README's generator
\* (next) => { let counter = 0; setInterval(() => { next(counter); counter++; }, 1000) }:
\* each invocation has its own counter, which the timer callback advances
counterGenerator(g, next, st) ==
    [st EXCEPT !.tasks = Append(@, [next |-> next, v |-> 0, inc |-> 1])]

\* a withLatestFrom that hands "latest = x" to the other stream's generator
\* instead of subscribing to the other stream
withLatestFromGeneratorOtherDirect(g, next, st) ==
    LET latest == Len(st.cells) + 1
        st1 == generator(g.src[2], <<Frame("latest", "", latest)>>,
                         [st EXCEPT !.cells = Append(@, undefined)])
    IN  IF st1.thrown THEN st1
        ELSE generator(g.src[1],
                       <<Frame("pair", "", latest) @@ [this |-> g.src[1]]>> \o next,
                       st1)

\* a withLatestFrom that subscribes to its own stream instead of invoking the
\* generator
withLatestFromGeneratorViaSubscribe(g, next, st) ==
    LET latest == Len(st.cells) + 1
        st1 == subscribe(g.src[2], <<Frame("latest", "", latest)>>,
                         [st EXCEPT !.cells = Append(@, undefined)])
    IN  IF st1.thrown THEN st1
        ELSE subscribe(g.src[1],
                       <<Frame("pair", "", latest) @@ [this |-> g.src[1]]>> \o next,
                       st1)

\* a withLatestFrom that invokes its own generator before it subscribes to the
\* other stream
withLatestFromGeneratorThisFirst(g, next, st) ==
    LET latest == Len(st.cells) + 1
        st1 == generator(g.src[1],
                         <<Frame("pair", "", latest) @@ [this |-> g.src[1]]>> \o next,
                         [st EXCEPT !.cells = Append(@, undefined)])
    IN  IF st1.thrown THEN st1
        ELSE subscribe(g.src[2], <<Frame("latest", "", latest)>>, st1)

\* withLatestFrom's generator (beta class):
\* (next) => { let latest; otherStream.subscribe(...); this.generator(...) }
withLatestFromGenerator(g, next, st) ==
    LET latest == Len(st.cells) + 1
        st1 == subscribe(g.src[2], <<Frame("latest", "", latest)>>,
                         [st EXCEPT !.cells = Append(@, undefined)])
    IN  IF st1.thrown THEN st1
        ELSE generator(g.src[1],
                       <<Frame("pair", "", latest) @@ [this |-> g.src[1]]>> \o next,
                       st1)

\* invoking the generator stored in stream s
generator(s, next, st) ==
    LET g   == st.streams[s].generator
        st1 == [st EXCEPT !.trace = Append(@, Event("generator", s, 0))]
    IN  CASE g.kind = "from"   -> fromGenerator(g, next, st1)
          [] g.kind = "filter" -> filterGenerator(g, next, st1)
          [] g.kind = "map"    -> mapGenerator(g, next, st1)
          [] g.kind = "reduce" -> reduceGenerator(g, next, st1)
          [] g.kind = "merge"  -> mergeGenerator(g, next, st1)
          [] g.kind = "withLatestFrom" -> withLatestFromGenerator(g, next, st1)
          [] g.kind = "interval" -> intervalGenerator(g, next, st1)
          [] g.kind = "counter" -> counterGenerator(g, next, st1)
          [] g.kind = "exposing" -> exposingGenerator(g, next, st1)

\* a subscribe that gives every subscription a last value and a buffer of its
\* own: it starts from an empty state
subscribeResetting(s, next, st) ==
    LET st1 == [st EXCEPT !.trace = Append(@, Event("subscribe", s, 0)),
                          !.streams[s].last = undefined,
                          !.streams[s].buffer = <<>>]
    IN  generator(s, <<Frame("subscribe", "", s)>> \o next, st1)

\* a subscribe that runs the generator a second time
subscribeTwice(s, next, st) ==
    LET st1 == [st EXCEPT !.trace = Append(@, Event("subscribe", s, 0))]
    IN  generator(s, <<Frame("subscribe", "", s)>> \o next,
                  generator(s, <<Frame("subscribe", "", s)>> \o next, st1))

\* subscribe(listener): this.generator((x) => {...})
subscribe(s, next, st) ==
    generator(s, <<Frame("subscribe", "", s)>> \o next,
              [st EXCEPT !.trace = Append(@, Event("subscribe", s, 0))])

\* ------------------------------------------------- operators and factories
\* (v is the version of the class whose method is called)
\* JAStream.from(xs)
from(v, xs) == new(v, Generator("from", <<>>, "", 0, xs))
\* stream.filter(pred)
filter(v, s, p) == new(v, Generator("filter", <<s>>, p, 0, <<>>))
\* stream.map(mapFn)
map(v, s, m) == new(v, Generator("map", <<s>>, m, 0, <<>>))
\* stream.reduce(fn, initialValue)
reduce(v, s, r, initialValue) ==
    new(v, Generator("reduce", <<s>>, r, initialValue, <<>>))
\* JAStream.merge(...streams)
merge(v, ss) == new(v, Generator("merge", ss, "", 0, <<>>))
\* stream.withLatestFrom(otherStream) (beta class)
withLatestFrom(v, s, otherStream) ==
    new(v, Generator("withLatestFrom", <<s, otherStream>>, "", 0, <<>>))

\* ------------------------------------------------------------------ actions
Ids == 1..Len(streams)
NoRet == [op |-> "none", stream |-> 0, at |-> 0, threw |-> FALSE, value |-> <<>>,
          held |-> <<>>, alias |-> FALSE]

\* a constructor that subscribes to the stream it has just built
ConstructEager(S) ==
    /\ Len(streams) < MaxStreams
    /\ LET c  == Len(calls) + 1
           s  == Len(streams) + 1
           st == subscribe(s, <<Frame("listener", "", c)>>,
                           [streams |-> Append(streams, S), cells |-> cells,
                            trace |-> trace, tasks |-> tasks, thrown |-> FALSE,
                            ret |-> ret,
                            calls |-> Append(calls, [stream |-> s, listener |-> "",
                                                     log |-> <<>>, threw |-> FALSE])])
       IN  /\ streams' = st.streams
           /\ cells' = st.cells
           /\ calls' = st.calls
           /\ trace' = st.trace
           /\ tasks' = st.tasks
    /\ UNCHANGED ret

\* new JAStream(...): the object is created, nothing is run
Construct(S) ==
    /\ Len(streams) < MaxStreams
    /\ streams' = Append(streams, S)
    /\ UNCHANGED <<cells, calls, trace, tasks, ret>>

\* the streams of numbers: the tests' predicate, mapper and reducer are
\* handed numbers, never the pairs a withLatestFrom stream emits
Numbers == {s \in Ids : streams[s].generator.kind # "withLatestFrom"}

\* the operator calls of the tests, on any stream of numbers that exists
Filter == \E s \in Numbers : Construct(filter(streams[s].version, s, "even"))
Map == \E s \in Numbers : Construct(map(streams[s].version, s, "double"))
Reduce == \E s \in Numbers : Construct(reduce(streams[s].version, s, "sum", 0))

\* JAStream.from([1, 2]), JAStream.merge(a, b) and a.withLatestFrom(b) in the
\* beta class
TestArray == <<1, 2>>
From == Construct(from("beta", TestArray))
Merge == \E a, b \in Numbers : Construct(merge("beta", <<a, b>>))
WithLatestFrom == \E a, b \in Numbers : Construct(withLatestFrom("beta", a, b))

\* the user calls stream.subscribe(listener) with a fresh listener fn; the call
\* returns, or the exception a callback threw leaves it
SubscribeWith(fn) ==
    \E s \in Ids :
        /\ Len(calls) < MaxCalls
        /\ LET c  == Len(calls) + 1
               st == subscribe(s, <<Frame("listener", fn, c)>>,
                               [streams |-> streams, cells |-> cells,
                                trace |-> Append(trace, Event("call", c, 0)),
                                tasks |-> tasks, thrown |-> FALSE, ret |-> ret,
                                calls |-> Append(calls, [stream |-> s, listener |-> fn,
                                                         log |-> <<>>, threw |-> FALSE])])
           IN  /\ streams' = st.streams
               /\ cells' = st.cells
               /\ calls' = [st.calls EXCEPT ![c].threw = st.thrown]
               /\ trace' = st.trace
               /\ tasks' = st.tasks
               /\ ret' = st.ret

\* stream.subscribe(mockListener)
Subscribe == SubscribeWith("")

\* stream.subscribe((x) => { if (x === 2) throw new Error(); ... })
SubscribeThrowing == SubscribeWith("throwOn2")

\* stream.subscribe((x) => { if (x === 1) emit(2); ... })
SubscribeReentering == SubscribeWith("reenter")

\* the host fires one of the registered timers: () => next('A'), or
\* () => { next(counter); counter++; }, runs to completion; an exception it
\* throws goes to the host (and skips counter++).  The timers never stop; a run
\* is followed for MaxTicks firings.
MaxTicks == MaxLen + 1
Ticks == Len(SelectSeq(trace, LAMBDA e : e.ev = "tick"))
Tick ==
    \E t \in 1..Len(tasks) :
        /\ Ticks < MaxTicks
        /\ LET st == call(tasks[t].next, tasks[t].v,
                          [streams |-> streams, cells |-> cells, calls |-> calls,
                           trace |-> Append(trace, Event("tick", t, tasks[t].v)),
                           tasks |-> tasks, thrown |-> FALSE, ret |-> ret])
           IN  /\ streams' = st.streams
               /\ cells' = st.cells
               /\ calls' = st.calls
               /\ trace' = st.trace
               /\ tasks' = [st.tasks EXCEPT
                              ![t].v = IF st.thrown THEN @ ELSE @ + tasks[t].inc]
               /\ ret' = st.ret

\* the user calls stream.getLast()
GetLast ==
    \E s \in Ids :
        /\ ret' = [op |-> "getLast", stream |-> s, at |-> Len(trace),
                   threw |-> FALSE, value |-> getLast(streams[s]),
                   held |-> <<>>, alias |-> FALSE]
        /\ UNCHANGED <<streams, cells, calls, trace, tasks>>

\* the user calls stream.getBuffer()
GetBuffer ==
    \E s \in Ids :
        /\ LET r == IF streams[s].version = "beta"
                       THEN getBufferBeta(streams[s])
                       ELSE getBuffer(streams[s])
           IN  ret' = [op |-> "getBuffer", stream |-> s, at |-> Len(trace),
                       held |-> r.value, alias |-> ~r.threw] @@ r
        /\ UNCHANGED <<streams, cells, calls, trace, tasks>>

\* -------------------------------------------------------------- specifications
\* composition: one stream built by JAStream.from, then any streams derived
\* from it by chains of filter / map / reduce, subscribed in any order
Init ==
    /\ \E xs \in Arrays : streams = <<from("options", xs)>>
    /\ cells = <<>>
    /\ calls = <<>>
    /\ trace = <<>>
    /\ tasks = <<>>
    /\ ret = NoRet

Next == Filter \/ Map \/ Reduce \/ Subscribe

Spec == Init /\ [][Next]_vars

\* one stream built with new JAStream(generator, options) around a synchronous
\* generator that emits an array, as in the tests
InitBuffer ==
    /\ \E xs \in Arrays, o \in Options :
           streams = <<JAStream(Generator("from", <<>>, "", 0, xs), o)>>
    /\ cells = <<>>
    /\ calls = <<>>
    /\ trace = <<>>
    /\ tasks = <<>>
    /\ ret = NoRet

NextBuffer == Subscribe \/ GetLast \/ GetBuffer

SpecBuffer == InitBuffer /\ [][NextBuffer]_vars

\* every operator with every function: a from() stream, a second stream that is
\* another from() stream or is derived from the first by filter / map / reduce,
\* and a merge over them (in either order, of one of them with itself, or of no
\* stream at all), subscribed in any order
InitOperators ==
    /\ \E xs \in Arrays, ss \in {<<>>} \cup ((1..2) \X (1..2)) :
       \E second \in {from("options", ys) : ys \in Arrays} \cup
                     {filter("options", 1, p) : p \in Predicates} \cup
                     {map("options", 1, m) : m \in Mappers} \cup
                     {reduce("options", 1, r, v) : r \in Reducers, v \in Seeds} :
           streams = <<from("options", xs), second, merge("options", ss)>>
    /\ cells = <<>>
    /\ calls = <<>>
    /\ trace = <<>>
    /\ tasks = <<>>
    /\ ret = NoRet

NextOperators == Subscribe

SpecOperators == InitOperators /\ [][NextOperators]_vars

\* the beta class: a from() stream and one stream derived from it
InitBeta ==
    /\ \E xs \in Arrays, d \in {"filter", "map", "reduce"} :
           streams = <<from("beta", xs),
                       CASE d = "filter" -> filter("beta", 1, "even")
                         [] d = "map"    -> map("beta", 1, "double")
                         [] d = "reduce" -> reduce("beta", 1, "sum", 0)>>
    /\ cells = <<>>
    /\ calls = <<>>
    /\ trace = <<>>
    /\ tasks = <<>>
    /\ ret = NoRet

NextBeta == Subscribe \/ GetLast \/ GetBuffer

SpecBeta == InitBeta /\ [][NextBeta]_vars

\* a derivation chain: a stream built with new JAStream(generator, options)
\* around a generator that emits an array, a stream derived from it and a
\* stream derived from either, by the tests' filter / map / reduce
Derived(v, s) ==
    {filter(v, s, "even"), map(v, s, "double"), reduce(v, s, "sum", 0)}
InitChain ==
    /\ \E xs \in Arrays, o \in Options, p \in 1..2 :
       \E second \in Derived("options", 1), third \in Derived("options", p) :
           streams = <<JAStream(Generator("from", <<>>, "", 0, xs), o), second, third>>
    /\ cells = <<>>
    /\ calls = <<>>
    /\ trace = <<>>
    /\ tasks = <<>>
    /\ ret = NoRet

NextChain == Subscribe

SpecChain == InitChain /\ [][NextChain]_vars

\* callbacks that throw: a from() stream, a stream derived from it by
\* filter / map / reduce with a function that may throw, and the merge of the
\* two in either order, subscribed with listeners that may throw
InitThrow ==
    /\ \E xs \in Arrays, ss \in {<<1, 2>>, <<2, 1>>} :
       \E second \in {filter("options", 1, p) : p \in Predicates \cup Throwing} \cup
                     {map("options", 1, m) : m \in Mappers \cup Throwing} \cup
                     {reduce("options", 1, r, 0) : r \in Reducers \cup Throwing} :
           streams = <<from("options", xs), second, merge("options", ss)>>
    /\ cells = <<>>
    /\ calls = <<>>
    /\ trace = <<>>
    /\ tasks = <<>>
    /\ ret = NoRet

NextThrow == Subscribe \/ SubscribeThrowing

SpecThrow == InitThrow /\ [][NextThrow]_vars

\* a stream around a timer, as in the README, and one stream derived from it by
\* filter / map / reduce; both are subscribed at any time, also while timers
\* registered by earlier subscriptions keep firing
InitAsync ==
    /\ \E v \in Values :
       \E second \in {filter("options", 1, p) : p \in Predicates} \cup
                     {map("options", 1, m) : m \in Mappers} \cup
                     {reduce("options", 1, r, a) : r \in Reducers, a \in Seeds} :
           streams = <<JAStream(Generator("interval", <<>>, "", 0, <<v>>), NoOptions),
                       second>>
    /\ cells = <<>>
    /\ calls = <<>>
    /\ trace = <<>>
    /\ tasks = <<>>
    /\ ret = NoRet

NextAsync == Subscribe \/ Tick

SpecAsync == InitAsync /\ [][NextAsync]_vars

\* the beta class: a.withLatestFrom(b) (or a.withLatestFrom(a)) where each of a
\* and b replays an array or is driven by a timer; all three streams are
\* subscribed at any time while the timers fire.  The values a emits are not
\* used by withLatestFrom, so a replays [], [1] or [1, 2]; b replays any array
\* that is not longer, and [1, 2] next to a.withLatestFrom(a).
InitLatest ==
    /\ \E A \in {Generator("from", <<>>, "", 0, SubSeq(TestArray, 1, n)) :
                     n \in 0..Len(TestArray)} \cup
                 {Generator("interval", <<>>, "", 0, <<1>>)},
          B \in {Generator("from", <<>>, "", 0, ys) :
                     ys \in {zs \in Arrays : Len(zs) <= Len(TestArray)}} \cup
                 {Generator("interval", <<>>, "", 0, <<2>>)},
          other \in 1..2 :
           /\ other = 1 => B.kind = "interval" \/ B.xs = TestArray
           /\ streams = <<new("beta", A), new("beta", B),
                          withLatestFrom("beta", 1, other)>>
    /\ cells = <<>>
    /\ calls = <<>>
    /\ trace = <<>>
    /\ tasks = <<>>
    /\ ret = NoRet

NextLatest == Subscribe \/ Tick

SpecLatest == InitLatest /\ [][NextLatest]_vars

\* composition in the beta class: streams are built one after the other by
\* from, filter, map, reduce, merge and withLatestFrom and subscribed at any time
InitCompose ==
    /\ streams = <<>>
    /\ cells = <<>>
    /\ calls = <<>>
    /\ trace = <<>>
    /\ tasks = <<>>
    /\ ret = NoRet

NextCompose ==
    From \/ Filter \/ Map \/ Reduce \/ Merge \/ WithLatestFrom \/ Subscribe

SpecCompose == InitCompose /\ [][NextCompose]_vars

\* ======================================================================
\* Properties
\* ======================================================================
CallIds == 1..Len(calls)
\* the values call c's listener was called with, in order
Received(c) == [i \in 1..Len(calls[c].log) |-> calls[c].log[i].v]
\* the generator of the stream call c subscribed to
Gen(c) == streams[calls[c].stream].generator
\* the generator of that stream's parent
ParentGen(c) == streams[Gen(c).src[1]].generator
\* call c subscribed to from(xs).<kind>(...)
Over(c, kind) == Gen(c).kind = kind /\ ParentGen(c).kind = "from"

\* [R(V,s1), R(R(V,s1),s2), ...]
RECURSIVE RunningFolds(_, _, _)
RunningFolds(fn, acc, xs) ==
    IF xs = <<>> THEN <<>>
    ELSE LET a == reducer(fn, acc, Head(xs))
         IN  <<a>> \o RunningFolds(fn, a, Tail(xs))

\* C1: one subscribe call on from(S) calls the listener exactly Len(S) times,
\* before subscribe returns, with the elements of S in their order (not at
\* all when S is empty).
C1_FromReplaysArray ==
    \A c \in CallIds :
        Gen(c).kind = "from" =>
            /\ Len(calls[c].log) = Len(Gen(c).xs)
            /\ Received(c) = Gen(c).xs

C1_Witness ==
    \E c \in CallIds :
        /\ Gen(c).kind = "from"
        /\ Len(Gen(c).xs) = 2
        /\ Gen(c).xs[1] # Gen(c).xs[2]
        /\ Received(c) = Gen(c).xs

\* C2: subscribing to from(S).filter(P) delivers exactly the subsequence of S
\* whose elements satisfy P, in the order of S.
C2_FilterSubsequence ==
    \A c \in CallIds :
        Over(c, "filter") =>
            Received(c) = SelectSeq(ParentGen(c).xs, LAMBDA x : pred(Gen(c).fn, x))

C2_Witness ==
    \E c \in CallIds :
        /\ Over(c, "filter")
        /\ \E i, j \in 1..Len(ParentGen(c).xs) :
               pred(Gen(c).fn, ParentGen(c).xs[i]) /\ ~pred(Gen(c).fn, ParentGen(c).xs[j])
        /\ Len(Received(c)) = 1

C4_ReduceRunningFolds ==
    \A c \in CallIds :
        Over(c, "reduce") =>
            /\ Len(calls[c].log) = Len(ParentGen(c).xs)
            /\ Received(c) = RunningFolds(Gen(c).fn, Gen(c).seed, ParentGen(c).xs)

C4_Witness ==
    \E c \in CallIds :
        /\ Over(c, "reduce")
        /\ Len(ParentGen(c).xs) = 2
        /\ Received(c) = <<reducer(Gen(c).fn, Gen(c).seed, ParentGen(c).xs[1]),
                           reducer(Gen(c).fn,
                                   reducer(Gen(c).fn, Gen(c).seed, ParentGen(c).xs[1]),
                                   ParentGen(c).xs[2])>>

\* the values stream s's subscribe callback was invoked with among the first n
\* events of the trace, in order
RECURSIVE History(_, _)
History(s, n) ==
    IF n = 0 THEN <<>>
    ELSE IF trace[n].ev = "emit" /\ trace[n].id = s
           THEN Append(History(s, n - 1), trace[n].v)
           ELSE History(s, n - 1)

\* the last k elements of a sequence (all of it when it is shorter)
LastN(seq, k) ==
    SubSeq(seq, (IF Len(seq) > k THEN Len(seq) - k ELSE 0) + 1, Len(seq))

\* the last element of a sequence as an optional value
LastOf(seq) == IF seq = <<>> THEN undefined ELSE Some(seq[Len(seq)])

\* what the listeners of the first n calls saw, call after call, for stream s
RECURSIVE Seen(_, _)
Seen(s, n) ==
    IF n = 0 THEN <<>>
    ELSE IF calls[n].stream = s THEN Seen(s, n - 1) \o calls[n].log
         ELSE Seen(s, n - 1)

Buffering(s) == streams[s].useBuffer /\ streams[s].bufferSize >= 1

C6_BufferBounded ==
    \A s \in Ids :
        Buffering(s) =>
            LET k == streams[s].bufferSize
                L == Seen(s, Len(calls))
                before(j) == IF j = 1 THEN <<>> ELSE L[j - 1].buffer
                appended(j) == Append(before(j), L[j].v)
            IN  /\ Len(streams[s].buffer) <= k
                /\ streams[s].buffer = (IF L = <<>> THEN <<>> ELSE L[Len(L)].buffer)
                /\ \A j \in 1..Len(L) :
                       /\ Len(L[j].buffer) <= k
                       /\ L[j].buffer = IF Len(appended(j)) > k
                                          THEN Tail(appended(j))
                                          ELSE appended(j)

C6_Witness ==
    \E s \in Ids :
        /\ Buffering(s)
        /\ streams[s].bufferSize = 2
        /\ LET L == Seen(s, Len(calls))
           IN  \E j \in 2..Len(L) :
                   /\ Len(L[j - 1].buffer) = 2
                   /\ L[j].buffer = <<L[j - 1].buffer[2], L[j].v>>
                   /\ L[j - 1].buffer[1] # L[j - 1].buffer[2]

\* C7: getBuffer() on a stream that was not constructed with useBuffer = true
\* raises an error instead of returning a sequence, before or after any
\* number of emissions.
C7_GetBufferRaises ==
    (ret.op = "getBuffer" /\ ~streams[ret.stream].useBuffer) => ret.threw

\* C8: getLast() is undefined until a value has been delivered through the
\* stream's own subscribe (before any subscribe call, and after a subscribe
\* whose generator emitted nothing); afterwards it is the value most recently
\* delivered through that subscribe.
C8_GetLastIsLatest ==
    /\ \A s \in Ids : getLast(streams[s]) = LastOf(History(s, Len(trace)))
    /\ ret.op = "getLast" => ret.value = LastOf(History(ret.stream, ret.at))

C8_Witness ==
    /\ ret.op = "getLast"
    /\ ret.at = Len(trace)
    /\ LET xs == streams[ret.stream].generator.xs
       IN  /\ Len(xs) = 2
           /\ xs[1] # xs[2]
           /\ Len(calls) = 1
           /\ ret.value = Some(xs[2])

\* the output sequence of stream s, by structure: what one subscription is
\* to deliver when every stream below it replays its array
RECURSIVE Out(_), OutAll(_, _)
Out(s) ==
    LET g == streams[s].generator
    IN  CASE g.kind = "from" -> g.xs
          [] g.kind = "filter" -> SelectSeq(Out(g.src[1]), LAMBDA x : pred(g.fn, x))
          [] g.kind = "map" ->
                 LET o == Out(g.src[1]) IN [i \in 1..Len(o) |-> mapFn(g.fn, o[i])]
          [] g.kind = "reduce" -> RunningFolds(g.fn, g.seed, Out(g.src[1]))
          [] g.kind = "merge" -> OutAll(g.src, 1)
OutAll(ss, i) == IF i > Len(ss) THEN <<>> ELSE Out(ss[i]) \o OutAll(ss, i + 1)

\* the part of the trace that belongs to subscribe call c
CallStart(c) == CHOOSE i \in 1..Len(trace) : trace[i] = Event("call", c, 0)
CallEnd(c) == IF c = Len(calls) THEN Len(trace) ELSE CallStart(c + 1) - 1
Segment(c) == SubSeq(trace, CallStart(c), CallEnd(c))

\* input after input: the subscription to the input, then one listener call
\* for each of the input's values
RECURSIVE InputAfterInput(_, _, _)
InputAfterInput(c, ss, i) ==
    IF i > Len(ss) THEN <<>>
    ELSE <<Event("subscribe", ss[i], 0)>>
         \o [j \in 1..Len(Out(ss[i])) |-> Event("listener", c, Out(ss[i])[j])]
         \o InputAfterInput(c, ss, i + 1)

C10_IndependentReplays ==
    /\ \A c \in CallIds : Received(c) = Out(calls[c].stream)
    /\ \A c, d \in CallIds :
           calls[c].stream = calls[d].stream => Received(c) = Received(d)
    /\ \A s \in Ids :
           Len(SelectSeq(trace, LAMBDA e : e.ev = "listener" /\ calls[e.id].stream = s))
               = Cardinality({c \in CallIds : calls[c].stream = s}) * Len(Out(s))

C10_Witness ==
    \E c, d \in CallIds :
        /\ c < d
        /\ calls[c].stream = calls[d].stream
        /\ Gen(c).kind = "merge"
        /\ \E i \in 1..Len(Gen(c).src) : streams[Gen(c).src[i]].generator.kind = "reduce"
        /\ Len(Received(c)) >= 2
        /\ Received(d) = Received(c)

\* stream r is s itself or one of the streams s was built from
RECURSIVE BuiltFrom(_, _)
BuiltFrom(s, r) ==
    \/ s = r
    \/ \E i \in 1..Len(streams[s].generator.src) :
           BuiltFrom(streams[s].generator.src[i], r)

\* the subscribe call during which the i-th event of the trace happened
\* (0 when no subscribe call was running)
RunningCall(i) ==
    LET started == {j \in 1..i : trace[j].ev = "call"}
    IN  IF started = {} THEN 0
        ELSE trace[CHOOSE j \in started : \A k \in started : k <= j].id

\* C11: composition is lazy.  A step that constructs a stream (from, filter,
\* map, reduce, merge, withLatestFrom) invokes no generator and no callback
\* and leaves every existing stream's last and buffer as they were, the new
\* stream starting with no last value and an empty buffer; a generator is only
\* ever invoked during a subscribe call on its stream or on a stream built
\* from it.
C11_CompositionIsLazy ==
    /\ [][Len(streams') > Len(streams) =>
              /\ trace' = trace
              /\ cells' = cells
              /\ calls' = calls
              /\ tasks' = tasks
              /\ SubSeq(streams', 1, Len(streams)) = streams
              /\ streams'[Len(streams')].last = undefined
              /\ streams'[Len(streams')].buffer = <<>>]_vars
    /\ [](\A i \in 1..Len(trace) :
              trace[i].ev = "generator" =>
                  /\ RunningCall(i) # 0
                  /\ BuiltFrom(calls[RunningCall(i)].stream, trace[i].id))

C11_Witness ==
    /\ Len(streams) = 3
    /\ streams[3].generator.kind = "withLatestFrom"
    /\ streams[2].generator.kind \in {"filter", "map", "reduce", "merge"}
    /\ trace = <<>>
    /\ \A s \in Ids : streams[s].last = undefined /\ streams[s].buffer = <<>>

\* C12: the stream is updated before the listener runs.  Whenever a listener
\* is invoked with x, getLast() of the stream it subscribed to is already x
\* and, when the stream buffers, its buffer already ends with x and is already
\* cut to the capacity.
C12_StateBeforeListener ==
    \A c \in CallIds :
        \A i \in 1..Len(calls[c].log) :
            LET e == calls[c].log[i]
                s == calls[c].stream
            IN  /\ e.last = Some(e.v)
                /\ Buffering(s) =>
                       /\ e.buffer # <<>>
                       /\ e.buffer[Len(e.buffer)] = e.v
                       /\ Len(e.buffer) <= streams[s].bufferSize

C12_Witness ==
    /\ Len(calls) = 2
    /\ Buffering(calls[2].stream)
    /\ streams[calls[2].stream].bufferSize = 2
    /\ Len(calls[2].log) = 2
    /\ calls[2].log[1] = [v |-> 1, last |-> Some(1), buffer |-> <<2, 1>>]
    /\ calls[2].log[2] = [v |-> 2, last |-> Some(2), buffer |-> <<1, 2>>]

\* C13: options that are absent take the defaults useBuffer = false and
\* bufferSize = 1, also when an options object leaves a field out: a stream
\* whose options gave no bufferSize has capacity 1, so its buffer holds
\* exactly the most recent value delivered (nothing before the first).
C13_OptionDefaults ==
    \A s \in Ids :
        (streams[s].useBuffer /\ streams[s].bufferSize = Absent) =>
            getBuffer(streams[s]) =
                [threw |-> FALSE, value |-> LastN(History(s, Len(trace)), 1)]

\* the values the timer registered during subscribe call c has emitted
TickValues(c) ==
    LET ticks == SelectSeq(trace, LAMBDA e : e.ev = "tick" /\ e.id = c)
    IN  [i \in 1..Len(ticks) |-> ticks[i].v]

\* C14: every subscribe call on a stream returned by reduce(R, V) starts from
\* a fresh accumulator V.  Over a timer-driven parent, where each subscription
\* has its own timer and the timers fire in any interleaving, each listener
\* receives the running folds, from V, of the values of its own timer only.
C14_FreshAccumulator ==
    \A c \in CallIds :
        Gen(c).kind = "reduce" =>
            Received(c) = RunningFolds(Gen(c).fn, Gen(c).seed, TickValues(c))

C14_Witness ==
    /\ Len(calls) = 2
    /\ Gen(1).kind = "reduce" /\ Gen(1).fn = "sum"
    /\ calls[2].stream = calls[1].stream
    /\ \E i, j, k \in 1..Len(trace) :
           /\ i < j /\ j < k
           /\ trace[i] = Event("tick", 1, 1)
           /\ trace[j] = Event("tick", 2, 1)
           /\ trace[k] = Event("tick", 1, 1)
    /\ Received(1) = <<Gen(1).seed + 1, Gen(1).seed + 2>>
    /\ Received(2) = <<Gen(1).seed + 1>>

\* subscribe call c is on a stream a.withLatestFrom(b)
OnLatest(c) == Gen(c).kind = "withLatestFrom"
\* the "let latest" variable of that subscription: one is created per
\* subscription to a withLatestFrom stream, in the order of the calls
LatestOf(c) == Cardinality({d \in 1..c : OnLatest(d)})
\* the values timer t has emitted among the first n events of the trace
TimerValues(t, n) ==
    LET ticks == SelectSeq(SubSeq(trace, 1, n), LAMBDA e : e.ev = "tick" /\ e.id = t)
    IN  [i \in 1..Len(ticks) |-> ticks[i].v]
\* the values the timers in T have emitted (T holds one timer at most)
OfTimers(T, n) == IF T = {} THEN <<>> ELSE TimerValues(CHOOSE t \in T : TRUE, n)

\* what a's generator has emitted for subscription c: its array, or the values
\* of the timer it registered for c (the one that calls c's pair callback)
EmittedByThis(c) ==
    LET g == streams[Gen(c).src[1]].generator
    IN  IF g.kind = "from" THEN g.xs
        ELSE OfTimers({t \in 1..Len(tasks) :
                          /\ Head(tasks[t].next).op = "pair"
                          /\ Head(tasks[t].next).id = LatestOf(c)}, Len(trace))

\* what b has emitted within subscription c among the first n events of the
\* trace: its array (b is subscribed first), or the values of the timer it
\* registered for c (the one that ends in c's "latest = x" callback)
EmittedByOther(c, n) ==
    LET g == streams[Gen(c).src[2]].generator
    IN  IF g.kind = "from" THEN g.xs
        ELSE OfTimers({t \in 1..Len(tasks) :
                          LET last == tasks[t].next[Len(tasks[t].next)]
                          IN  last.op = "latest" /\ last.id = LatestOf(c)}, n)

\* the positions in the trace where the listener of call c was invoked
Deliveries(c) == {i \in 1..Len(trace) : trace[i].ev = "listener" /\ trace[i].id = c}

C16_AbsentWhileOtherSilent ==
    \A c \in CallIds :
        OnLatest(c) =>
            /\ \A i \in Deliveries(c) :
                   EmittedByOther(c, i) = <<>> => trace[i].v[2] = undefined
            /\ EmittedByOther(c, Len(trace)) = <<>> =>
                   Len(calls[c].log) = Len(EmittedByThis(c))

C16_Witness ==
    \E c \in CallIds :
        /\ OnLatest(c)
        /\ streams[2].generator.kind = "interval"
        /\ Gen(c).src = <<1, 2>>
        /\ Len(EmittedByThis(c)) = 2
        /\ Len(calls[c].log) = 2
        /\ calls[c].log[1].v[2] = undefined
        /\ calls[c].log[2].v[2] = undefined

\* C17: last and buffer are per instance along a filter / map / reduce chain.
\* A subscribe call on one stream changes the last value and the buffer of no
\* other stream: not those of the stream it was derived from, not those of the
\* streams derived from it.
C17_ChainIsolation ==
    [][\A s \in Ids :
           (Len(calls') > Len(calls) /\ calls'[Len(calls')].stream # s) =>
               /\ streams'[s].last = streams[s].last
               /\ streams'[s].buffer = streams[s].buffer]_vars

C17_Witness ==
    /\ Len(calls) = 2
    /\ calls[1].stream = 3 /\ calls[2].stream = 1
    /\ streams[3].generator.src = <<2>>
    /\ streams[1].useBuffer /\ streams[1].bufferSize = 2
    /\ streams[1].buffer = <<1, 2>>
    /\ streams[1].last = Some(2)
    /\ streams[2].last = undefined /\ streams[2].buffer = <<>>
    /\ streams[3].last # undefined /\ streams[3].last # Some(2)
    /\ streams[3].buffer = <<>>

\* what one subscription is to see when callbacks may throw: the elements of
\* xs go, one after the other, through the operator g (a from() itself, or a
\* filter / map / reduce of it) to the listener L; out are the values the
\* listener has handled, by tells who threw ("" while nobody has)
RECURSIVE Outcome(_, _, _, _, _)
Outcome(g, L, acc, xs, out) ==
    IF xs = <<>> THEN [out |-> out, by |-> ""]
    ELSE LET x == Head(xs)
             drop == g.kind = "filter" /\ ~pred(g.fn, x)
             y == CASE g.kind = "map" -> mapFn(g.fn, x)
                    [] g.kind = "reduce" -> reducer(g.fn, acc, x)
                    [] OTHER -> x
         IN  IF g.kind # "from" /\ throws(g.fn, x) THEN [out |-> out, by |-> "operator"]
             ELSE IF drop THEN Outcome(g, L, acc, Tail(xs), out)
             ELSE IF throws(L, y) THEN [out |-> out, by |-> "listener"]
             ELSE Outcome(g, L, y, Tail(xs), Append(out, y))

\* the outcome expected of subscribe call c (on a from() stream or on a stream
\* derived from one)
Expected(c) ==
    Outcome(Gen(c), calls[c].listener, Gen(c).seed,
            IF Gen(c).kind = "from" THEN Gen(c).xs ELSE ParentGen(c).xs, <<>>)

\* C18: an exception thrown by a predicate, mapper, reducer or listener while
\* element i of a from(S) chain is processed leaves the subscribe call that
\* triggered it; the listener has handled exactly the outputs of the elements
\* before i, and nothing is delivered for element i (beyond the invocation
\* that threw) or for later elements.
C18_ExceptionPropagates ==
    \A c \in CallIds :
        Gen(c).kind # "merge" =>
            /\ calls[c].threw = (Expected(c).by # "")
            /\ Received(c) = Expected(c).out
            /\ Cardinality(Deliveries(c)) =
                   Len(Expected(c).out) + (IF Expected(c).by = "listener" THEN 1 ELSE 0)

C18_Witness ==
    \E c, d \in CallIds :
        /\ Gen(c).kind = "map" /\ Gen(c).fn = "throwOn2"
        /\ ParentGen(c).xs = <<1, 2>>
        /\ calls[c].threw
        /\ Received(c) = <<2>>
        /\ calls[c].listener = ""
        /\ Gen(d).kind = "from"
        /\ calls[d].listener = "throwOn2"
        /\ calls[d].threw
        /\ Received(d) = <<1>>

\* the outcome expected of input s of a merge when it delivers to listener L
InputOutcome(s, L) ==
    LET g == streams[s].generator
    IN  Outcome(g, L, g.seed,
                IF g.kind = "from" THEN g.xs ELSE streams[g.src[1]].generator.xs, <<>>)

\* the first input of merge call c during whose delivery something throws
\* (0 when nothing does)
FirstThrowing(c) ==
    LET bad == {i \in 1..Len(Gen(c).src) :
                   InputOutcome(Gen(c).src[i], calls[c].listener).by # ""}
    IN  IF bad = {} THEN 0 ELSE CHOOSE i \in bad : \A j \in bad : i <= j

\* the inputs merge call c subscribed to, in order
Subscribed(c) ==
    LET subs == SelectSeq(Segment(c),
                          LAMBDA e : /\ e.ev = "subscribe"
                                     /\ \E i \in 1..Len(Gen(c).src) : e.id = Gen(c).src[i])
    IN  [i \in 1..Len(subs) |-> subs[i].id]

Invocations(s, events) ==
    Len(SelectSeq(events, LAMBDA e : e.ev = "generator" /\ e.id = s))

\* C20: one subscribe call invokes the subscribed stream's generator exactly
\* once, and with it the generator of every stream up the filter / map /
\* reduce chain to the root exactly once (and no other generator); k subscribe
\* calls on streams derived from the root invoke the root's generator k times.
C20_GeneratorOncePerSubscribe ==
    /\ \A c \in CallIds :
           \A s \in Ids :
               Invocations(s, Segment(c)) =
                   IF BuiltFrom(calls[c].stream, s) THEN 1 ELSE 0
    /\ Invocations(1, trace) = Len(calls)

C20_Witness ==
    /\ Len(streams) = 3
    /\ streams[3].generator.src = <<2>>
    /\ Len(calls) = 2
    /\ calls[1].stream = 3 /\ calls[2].stream = 2
    /\ Invocations(1, trace) = 2
    /\ Invocations(2, trace) = 2
    /\ Invocations(3, trace) = 1
    /\ Len(calls[1].log) >= 1

\* stream s has been subscribed to, by the user or by a merge
EverSubscribed(s) == \E i \in 1..Len(trace) : trace[i] = Event("subscribe", s, 0)

\* C21: for f = from(S).filter(P), values rejected by P never reach f's last
\* value or buffer: once f has been subscribed to, f.getLast() is the last
\* element of S that satisfies P (undefined when none does, and before any
\* subscription), and each subscription's listener is called once per accepted
\* element, seeing that element as f's last value.
C21_RejectedLeaveNoTrace ==
    /\ \A s \in Ids :
           (streams[s].generator.kind = "filter") =>
               LET accepted == Out(s)
               IN  /\ getLast(streams[s]) =
                          IF EverSubscribed(s) THEN LastOf(accepted) ELSE undefined
                   /\ streams[s].buffer = <<>>
                   /\ \A i \in 1..Len(History(s, Len(trace))) :
                          pred(streams[s].generator.fn, History(s, Len(trace))[i])
    /\ \A c \in CallIds :
           Gen(c).kind = "filter" =>
               /\ Len(calls[c].log) = Len(Out(calls[c].stream))
               /\ \A i \in 1..Len(calls[c].log) :
                      calls[c].log[i].last = Some(calls[c].log[i].v)

C21_Witness ==
    \E c \in CallIds :
        /\ Gen(c).kind = "filter" /\ Gen(c).fn = "even"
        /\ ParentGen(c).xs = <<2, 1>>
        /\ Len(calls[c].log) = 1
        /\ getLast(streams[calls[c].stream]) = Some(2)

\* C22: one subscribe call on merge(s1, ..., sn) subscribes to every input
\* exactly once, from left to right, handing each the same callback (every
\* value an input emits goes through the merged stream's own callback to the
\* listener); an input's values all arrive before the next input is
\* subscribed to, and a merge of no streams delivers nothing.
C22_MergeSubscribesInOrder ==
    \A c \in CallIds :
        Gen(c).kind = "merge" =>
            LET m  == calls[c].stream
                seg == Segment(c)
                IsInput(s) == \E i \in 1..Len(Gen(c).src) : s = Gen(c).src[i]
                subs == {i \in 1..Len(seg) : seg[i].ev = "subscribe" /\ IsInput(seg[i].id)}
            IN  /\ Subscribed(c) = Gen(c).src
                /\ \A i \in 1..Len(seg) :
                       (seg[i].ev = "emit" /\ seg[i].id # m) =>
                           /\ i + 2 <= Len(seg)
                           /\ seg[i + 1] = Event("emit", m, seg[i].v)
                           /\ seg[i + 2] = Event("listener", c, seg[i].v)
                           /\ \E j \in subs :
                                  /\ j < i
                                  /\ seg[j].id = seg[i].id
                                  /\ \A k \in subs : k <= j \/ k > i
                /\ Gen(c).src = <<>> => Received(c) = <<>> /\ Len(seg) = 3

C22_Witness ==
    \E c \in CallIds :
        /\ Gen(c).kind = "merge"
        /\ Gen(c).src = <<2, 1>>
        /\ Subscribed(c) = <<2, 1>>
        /\ Out(1) # <<>> /\ Out(2) # <<>> /\ Out(1) # Out(2)
        /\ Received(c) = Out(2) \o Out(1)

\* the README's merge of an initial stream with a timer-driven one: streams 1
\* and 2 are merged, in either order or one of them twice; stream 1 replays
\* [], [1] or [1, 2] or emits 1 on a timer, stream 2 emits 2 on a timer.  All
\* three streams are subscribed at any time while the timers fire.
InitMergeAsync ==
    /\ \E A \in {Generator("from", <<>>, "", 0, SubSeq(TestArray, 1, n)) :
                     n \in 0..Len(TestArray)} \cup
                 {Generator("interval", <<>>, "", 0, <<1>>)},
          ss \in (1..2) \X (1..2) :
           streams = <<new("options", A),
                       new("options", Generator("interval", <<>>, "", 0, <<2>>)),
                       merge("options", ss)>>
    /\ cells = <<>>
    /\ calls = <<>>
    /\ trace = <<>>
    /\ tasks = <<>>
    /\ ret = NoRet

NextMergeAsync == Subscribe \/ Tick

SpecMergeAsync == InitMergeAsync /\ [][NextMergeAsync]_vars

\* the timers whose callback ends in the listener of subscribe call c
TimersOf(c) ==
    {t \in 1..Len(tasks) :
        LET last == tasks[t].next[Len(tasks[t].next)]
        IN  last.op = "listener" /\ last.id = c}

\* the values the timers in T have emitted, in the order the host fired them
Fired(T) ==
    LET ticks == SelectSeq(trace, LAMBDA e : e.ev = "tick" /\ e.id \in T)
    IN  [i \in 1..Len(ticks) |-> ticks[i].v]

\* what the inputs ss[i..] replay from arrays while they are subscribed to
RECURSIVE Replayed(_, _)
Replayed(ss, i) ==
    IF i > Len(ss) THEN <<>>
    ELSE (IF streams[ss[i]].generator.kind = "from"
            THEN streams[ss[i]].generator.xs ELSE <<>>) \o Replayed(ss, i + 1)

\* C23: with timer-driven inputs, under every interleaving of the timers, a
\* subscription to merge(s1, ..., sn) has one timer per timer-driven input and
\* its listener receives what the array inputs replay during subscribe and
\* then every value those timers emit, once each, in the order the host fired
\* them; each firing is delivered within the same step, through the input and
\* the merged stream to the listener.
C23_MergeKeepsGlobalOrder ==
    \A c \in CallIds :
        Gen(c).kind = "merge" =>
            LET src == Gen(c).src
            IN  /\ Cardinality(TimersOf(c)) =
                       Cardinality({i \in 1..Len(src) :
                                       streams[src[i]].generator.kind = "interval"})
                /\ Received(c) = Replayed(src, 1) \o Fired(TimersOf(c))
                /\ \A i \in 1..Len(trace) :
                       (trace[i].ev = "tick" /\ trace[i].id \in TimersOf(c)) =>
                           /\ i + 3 <= Len(trace)
                           /\ trace[i + 1].ev = "emit" /\ trace[i + 1].v = trace[i].v
                           /\ trace[i + 2] = Event("emit", calls[c].stream, trace[i].v)
                           /\ trace[i + 3] = Event("listener", c, trace[i].v)

C23_Witness ==
    \E c \in CallIds :
        /\ Gen(c).kind = "merge"
        /\ Gen(c).src = <<1, 2>>
        /\ streams[1].generator.kind = "interval"
        /\ Received(c) = <<2, 1, 2>>

\* the README's counter stream with two streams derived from it (there,
\* filter(isOdd) and filter(isEven)); all three are subscribed at any time
\* while the timers fire
InitCounter ==
    /\ \E second \in {filter("options", 1, p) : p \in Predicates} \cup
                     {map("options", 1, "double")},
          third \in {filter("options", 1, "even"), reduce("options", 1, "sum", 0)} :
           streams = <<new("options", Generator("counter", <<>>, "", 0, <<>>)),
                       second, third>>
    /\ cells = <<>>
    /\ calls = <<>>
    /\ trace = <<>>
    /\ tasks = <<>>
    /\ ret = NoRet

NextCounter == Subscribe \/ Tick

SpecCounter == InitCounter /\ [][NextCounter]_vars

\* what a stream with generator g, the root or derived from the root by one
\* operator, passes on of the root's values xs
Through(g, xs) ==
    CASE g.kind = "filter" -> SelectSeq(xs, LAMBDA x : pred(g.fn, x))
      [] g.kind = "map"    -> [i \in 1..Len(xs) |-> mapFn(g.fn, xs[i])]
      [] g.kind = "reduce" -> RunningFolds(g.fn, g.seed, xs)
      [] OTHER             -> xs

\* C24: the README's counter generator keeps its counter in the invocation.
\* Every subscription, on the root or on a stream derived from it, on the same
\* stream as another one or not, runs its own invocation of the generator with
\* its own timer and counter: whatever the interleaving of the timers, the
\* timer of a subscription emits 0, 1, 2, ... and the subscription's listener
\* receives, in order, what its stream makes of exactly these values.
C24_IndependentInvocations ==
    \A c \in CallIds :
        LET own == Fired(TimersOf(c))
        IN  /\ Cardinality(TimersOf(c)) = 1
            /\ \A d \in CallIds : d # c => TimersOf(c) \cap TimersOf(d) = {}
            /\ own = [i \in 1..Len(own) |-> i - 1]
            /\ Received(c) = Through(Gen(c), own)

C24_Witness ==
    /\ Len(calls) = 2
    /\ Gen(1).kind = "filter" /\ Gen(1).fn = "odd"
    /\ Gen(2).kind = "filter" /\ Gen(2).fn = "even"
    /\ Fired(TimersOf(1)) = <<0, 1>> /\ Fired(TimersOf(2)) = <<0>>
    /\ Received(1) = <<1>> /\ Received(2) = <<0>>
    /\ trace[Len(trace)] = Event("listener", 1, 1)

\* a stream around a generator that hands out its emission callback, built with
\* any options and subscribed with plain and with re-entering listeners
InitReentrant ==
    /\ \E xs \in Arrays, o \in Options :
           streams = <<JAStream(Generator("exposing", <<>>, "", 0, xs), o)>>
    /\ cells = <<>>
    /\ calls = <<>>
    /\ trace = <<>>
    /\ tasks = <<>>
    /\ ret = NoRet

NextReentrant == Subscribe \/ SubscribeReentering

SpecReentrant == InitReentrant /\ [][NextReentrant]_vars

\* what a re-entering listener is called with while the generator emits xs
RECURSIVE Reentered(_)
Reentered(xs) ==
    IF xs = <<>> THEN <<>>
    ELSE (IF reenters("reenter", Head(xs)) THEN <<Reenter, Head(xs)>> ELSE <<Head(xs)>>)
         \o Reentered(Tail(xs))

\* C25: a listener that, while handling x, synchronously invokes the same
\* emission callback with y meets no guard: the nested emission is processed
\* completely (last = y, y stored in the buffer, the listener run with y to its
\* end) before the handling of x returns.  When it returns, last is y and an
\* enabled buffer holds y after x, as far as its size allows.
C25_ReentrantEmission ==
    \A c \in CallIds :
        calls[c].listener = "reenter" =>
            LET s   == calls[c].stream
                log == calls[c].log
                seg == SelectSeq(Segment(c), LAMBDA e : e.ev \in {"emit", "listener"})
            IN  /\ Received(c) = Reentered(streams[s].generator.xs)
                /\ \A i \in 1..Len(log) :
                       reenters("reenter", log[i].v) =>
                           /\ i > 1
                           /\ log[i - 1].v = Reenter
                           /\ log[i - 1].last = Some(Reenter)
                           /\ log[i].last = Some(Reenter)
                           /\ streams[s].useBuffer =>
                                  /\ log[i - 1].buffer = log[i].buffer
                                  /\ IF streams[s].bufferSize = 1
                                       THEN log[i].buffer = <<Reenter>>
                                       ELSE LastN(log[i].buffer, 2) = <<log[i].v, Reenter>>
                /\ \A i \in 1..Len(seg) :
                       (seg[i].ev = "listener" /\ reenters("reenter", seg[i].v)) =>
                           /\ i + 2 <= Len(seg)
                           /\ seg[i + 1] = Event("emit", s, Reenter)
                           /\ seg[i + 2] = Event("listener", c, Reenter)

C25_Witness ==
    \E c \in CallIds :
        /\ calls[c].listener = "reenter"
        /\ streams[calls[c].stream].generator.xs = <<1>>
        /\ streams[calls[c].stream].useBuffer
        /\ streams[calls[c].stream].bufferSize = 2
        /\ Received(c) = <<2, 1>>
        /\ getLast(streams[calls[c].stream]) = Some(2)
        /\ streams[calls[c].stream].buffer = <<1, 2>>

\* the README's timer stream; while its timers fire the user goes on calling
\* subscribe and an operator on every stream there is
InitNoCancel ==
    /\ \E v \in Values :
           streams = <<JAStream(Generator("interval", <<>>, "", 0, <<v>>), NoOptions)>>
    /\ cells = <<>>
    /\ calls = <<>>
    /\ trace = <<>>
    /\ tasks = <<>>
    /\ ret = NoRet

NextNoCancel == Subscribe \/ Tick \/ Filter

SpecNoCancel == InitNoCancel /\ [][NextNoCancel]_vars

\* the events the current step adds to the trace
Added == SubSeq(trace', Len(trace) + 1, Len(trace'))

\* C26: a subscription is never cancelled.  No step of the API (a further
\* subscribe, an operator call) removes or changes a registered emission
\* callback, and whenever one is invoked later the value that gets through to
\* the subscribed stream becomes its last value and is handed to the listener
\* exactly once; a callback with no filter in front of it always gets through.
C26_NoCancellation ==
    [][/\ Len(tasks') >= Len(tasks)
       /\ \A t \in 1..Len(tasks) :
              /\ tasks'[t].next = tasks[t].next
              /\ (Added # <<>> /\ Head(Added) = Event("tick", t, tasks[t].v)) =>
                     LET next == tasks[t].next
                         c == next[Len(next)].id
                         s == calls[c].stream
                         emits == SelectSeq(Added, LAMBDA e : e.ev = "emit" /\ e.id = s)
                         heard == SelectSeq(Added, LAMBDA e : e.ev = "listener")
                     IN  /\ Len(heard) = Len(emits)
                         /\ Len(heard) <= 1
                         /\ (\A i \in 1..Len(next) : next[i].op # "filter")
                                => Len(heard) = 1
                         /\ Len(next) = 2 => heard = <<Event("listener", c, tasks[t].v)>>
                         /\ \A d \in CallIds : d # c => calls'[d] = calls[d]
                         /\ IF heard = <<>>
                              THEN calls'[c] = calls[c] /\ streams'[s] = streams[s]
                              ELSE /\ heard[1].id = c
                                   /\ emits[1].v = heard[1].v
                                   /\ getLast(streams'[s]) = Some(heard[1].v)
                                   /\ calls'[c].log =
                                          Append(calls[c].log,
                                                 [v |-> heard[1].v,
                                                  last |-> Some(heard[1].v),
                                                  buffer |-> streams'[s].buffer])
      ]_vars

C26_Witness ==
    /\ Len(calls) = 2
    /\ calls[1].stream = 1
    /\ calls[2].stream = 2
    /\ \E i \in 1..Len(trace) :
           /\ trace[i].ev = "tick" /\ trace[i].id = 1
           /\ i > CallStart(2)
           /\ i + 2 = Len(trace)
           /\ trace[Len(trace)] = Event("listener", 1, trace[i].v)
    /\ Len(calls[1].log) = 2

\* the events of subscribe call c itself: from its start up to the next call
\* or the first firing of a timer
Setup(c) ==
    LET start == CHOOSE i \in 1..Len(trace) : trace[i].ev = "call" /\ trace[i].id = c
        later == {i \in (start + 1)..Len(trace) : trace[i].ev \in {"call", "tick"}}
        stop  == IF later = {} THEN Len(trace)
                 ELSE (CHOOSE i \in later : \A j \in later : i <= j) - 1
    IN  SubSeq(trace, start, stop)

\* C27: one subscribe call on a.withLatestFrom(b) subscribes to b exactly once
\* and does so before a's generator is invoked: b's synchronous values are all
\* in before a's generator starts and before any pair is delivered.  Hence,
\* with a replaying an array, every pair carries b's final value when b replays
\* a non-empty array, and an undefined second component when b is driven by a
\* timer.
C27_OtherSubscribedFirst ==
    \A c \in CallIds :
        OnLatest(c) =>
            LET a   == Gen(c).src[1]
                b   == Gen(c).src[2]
                seg == Setup(c)
                At(ev, id) == {i \in 1..Len(seg) : seg[i].ev = ev /\ seg[i].id = id}
                ga  == CHOOSE i \in At("generator", a) :
                           \A j \in At("generator", a) : j <= i
            IN  /\ At("subscribe", b) = {4}
                /\ At("generator", b) \cap {5} = {5}
                /\ Cardinality(At("generator", a)) = IF a = b THEN 2 ELSE 1
                /\ ga > 5
                /\ \A j \in At("emit", b) : j < ga
                /\ \A j \in At("listener", c) : j > ga
                /\ streams[a].generator.kind = "from" =>
                       /\ Len(calls[c].log) = Len(streams[a].generator.xs)
                       /\ \A i \in 1..Len(calls[c].log) :
                              calls[c].log[i].v[2] =
                                  IF streams[b].generator.kind = "from"
                                    THEN LastOf(streams[b].generator.xs)
                                    ELSE undefined

C27_Witness ==
    \E c \in CallIds :
        /\ OnLatest(c)
        /\ Gen(c).src = <<1, 2>>
        /\ streams[1].generator.xs = <<1, 2>>
        /\ streams[2].generator.kind = "from"
        /\ streams[2].generator.xs = <<2, 1>>
        /\ Len(calls[c].log) = 2
        /\ calls[c].log[1].v[2] = Some(1)
        /\ calls[c].log[2].v[2] = Some(1)

\* the beta class around the generator of the getBuffer test, which emits
\* 1, 2, ..., n: n runs past the ten values the beta buffer keeps
InitBetaBuffer ==
    /\ \E n \in 0..(BetaBufferSize + MaxLen) :
           streams = <<from("beta", [i \in 1..n |-> i])>>
    /\ cells = <<>>
    /\ calls = <<>>
    /\ trace = <<>>
    /\ tasks = <<>>
    /\ ret = NoRet

NextBetaBuffer == Subscribe \/ GetLast \/ GetBuffer

SpecBetaBuffer == InitBetaBuffer /\ [][NextBetaBuffer]_vars

\* C28: in the beta class getBuffer() returns the last 10 emitted values: the
\* most recent min(n, 10) of the n values delivered so far, in emission order,
\* and [] when nothing was emitted.
C28_BetaKeepsLastTen ==
    ret.op = "getBuffer" =>
        /\ ~ret.threw
        /\ ret.value = LastN(History(ret.stream, ret.at), BetaBufferSize)

\* a stream built with any options around a generator that emits an array,
\* subscribed with listeners that may throw
NextBufferThrow == Subscribe \/ SubscribeThrowing

SpecBufferThrow == InitBuffer /\ [][NextBufferThrow]_vars

\* C29: the state updates of an emission are not rolled back when the listener
\* throws.  Right after a subscribe call was left by the exception of the
\* listener invoked with x, the stream's last value is x and, when the buffer
\* is enabled, x is its most recent element; the listener has not completed x.
C29_NoRollback ==
    \A c \in CallIds :
        (c = Len(calls) /\ calls[c].threw) =>
            LET s == calls[c].stream
                x == trace[Len(trace)].v
            IN  /\ trace[Len(trace)] = Event("listener", c, x)
                /\ throws(calls[c].listener, x)
                /\ trace[Len(trace) - 1] = Event("emit", s, x)
                /\ getLast(streams[s]) = Some(x)
                /\ streams[s].useBuffer =>
                       /\ streams[s].buffer # <<>>
                       /\ streams[s].buffer[Len(streams[s].buffer)] = x
                /\ \A i \in 1..Len(calls[c].log) : ~throws(calls[c].listener, calls[c].log[i].v)

C29_Witness ==
    \E c \in CallIds :
        /\ c = Len(calls) /\ calls[c].threw
        /\ Received(c) = <<1>>
        /\ streams[1].generator.xs = <<1, 2>>
        /\ getLast(streams[1]) = Some(2)
        /\ streams[1].useBuffer /\ streams[1].bufferSize = 2
        /\ streams[1].buffer = <<1, 2>>

\* merge over inputs that keep a buffer: two streams built with
\* new JAStream(generator, options) around array generators and their merge in
\* either order; all three are subscribed in any order
InitMergeInputs ==
    /\ \E xs \in Arrays, n \in 0..Len(TestArray), ss \in {<<1, 2>>, <<2, 1>>},
          o1 \in {NoOptions} \cup {<<[useBuffer |-> TRUE, bufferSize |-> k]>> :
                                       k \in 1..MaxBufferSize},
          o2 \in {NoOptions, <<[useBuffer |-> TRUE, bufferSize |-> 1]>>} :
           streams = <<JAStream(Generator("from", <<>>, "", 0, xs), o1),
                       JAStream(Generator("from", <<>>, "", 0,
                                          SubSeq(TestArray, 1, n)), o2),
                       merge("options", ss)>>
    /\ cells = <<>>
    /\ calls = <<>>
    /\ trace = <<>>
    /\ tasks = <<>>
    /\ ret = NoRet

NextMergeInputs == Subscribe

SpecMergeInputs == InitMergeInputs /\ [][NextMergeInputs]_vars

\* what stream s has emitted in the subscribe calls c, c + 1, ...: its output
\* once per call on s itself and once per call on a merge that has s as input
RECURSIVE Emitted(_, _)
Emitted(s, c) ==
    IF c > Len(calls) THEN <<>>
    ELSE (IF \/ calls[c].stream = s
             \/ /\ Gen(c).kind = "merge"
                /\ \E i \in 1..Len(Gen(c).src) : Gen(c).src[i] = s
            THEN Out(s) ELSE <<>>) \o Emitted(s, c + 1)

\* C30: merge drives its inputs through their own subscribe, so a subscription
\* to m = merge(s1, ..., sn) updates the inputs as well: each input's last
\* value is the last value it emitted, in subscriptions to m or to itself
\* (undefined if it never emitted), each buffering input's buffer holds the
\* most recent of its own emissions only, and m's last value is the last value
\* delivered overall.
C30_MergeUpdatesInputs ==
    \A s \in Ids :
        /\ getLast(streams[s]) = LastOf(Emitted(s, 1))
        /\ Buffering(s) => streams[s].buffer = LastN(Emitted(s, 1), streams[s].bufferSize)
        /\ ~streams[s].useBuffer => streams[s].buffer = <<>>

C30_Witness ==
    /\ Len(calls) = 1
    /\ Gen(1).kind = "merge"
    /\ Gen(1).src = <<2, 1>>
    /\ streams[1].generator.xs = <<2, 2>>
    /\ streams[2].generator.xs = <<1, 2>>
    /\ streams[1].useBuffer /\ streams[1].bufferSize = 2
    /\ streams[2].useBuffer
    /\ getLast(streams[1]) = Some(2) /\ streams[1].buffer = <<2, 2>>
    /\ getLast(streams[2]) = Some(2) /\ streams[2].buffer = <<2>>
    /\ getLast(streams[3]) = Some(2)
    /\ Received(1) = <<1, 2, 2, 2>>

\* streams returned by the factories next to a stream with options: a root
\* built with new JAStream(generator, options), a second stream that is
\* JAStream.from(...) or derived from the root by filter / map / reduce, and
\* their merge; all are subscribed and asked for their buffer in any order
InitInherit ==
    /\ \E n \in 0..Len(TestArray), o \in Options, ss \in {<<1, 2>>, <<2, 1>>} :
       \E second \in Derived("options", 1) \cup {from("options", TestArray)} :
           streams = <<JAStream(Generator("from", <<>>, "", 0,
                                          SubSeq(TestArray, 1, n)), o),
                       second, merge("options", ss)>>
    /\ cells = <<>>
    /\ calls = <<>>
    /\ trace = <<>>
    /\ tasks = <<>>
    /\ ret = NoRet

NextInherit == Subscribe \/ GetBuffer

SpecInherit == InitInherit /\ [][NextInherit]_vars

\* stream s was returned by from, filter, map, reduce or merge (stream 1 is the
\* one the user constructed with options)
FromFactory(s) == s # 1

\* C31: buffer configuration is never inherited.  Whatever the options of the
\* stream(s) it was built from, a stream returned by filter, map, reduce, from
\* or merge has buffering disabled: in every reachable state getBuffer() on it
\* raises, and its buffer is empty after any number of emissions.
C31_BufferNotInherited ==
    /\ \A s \in Ids :
           FromFactory(s) =>
               /\ ~streams[s].useBuffer
               /\ streams[s].buffer = <<>>
               /\ getBuffer(streams[s]).threw
    /\ (ret.op = "getBuffer" /\ FromFactory(ret.stream)) => ret.threw

C31_Witness ==
    /\ streams[1].useBuffer /\ streams[1].bufferSize = 2
    /\ streams[1].buffer = <<1, 2>>
    /\ streams[2].generator.kind = "map"
    /\ History(2, Len(trace)) # <<>>
    /\ History(3, Len(trace)) # <<>>
    /\ ret.op = "getBuffer" /\ ret.stream = 2 /\ ret.at = Len(trace) /\ ret.threw

\* one buffering stream subscribed several times: its generator replays an
\* array, or is the README's timer or counter generator, whose timers fire in
\* any interleaving; the buffer has room for one value, for MaxBufferSize, or
\* for everything the subscriptions to an array deliver
InitShared ==
    /\ \E g \in {Generator("from", <<>>, "", 0, xs) : xs \in Arrays} \cup
                 {Generator("interval", <<>>, "", 0, <<1>>),
                  Generator("counter", <<>>, "", 0, <<>>)},
          k \in {1, MaxBufferSize, MaxLen * MaxCalls} :
           streams = <<JAStream(g, <<[useBuffer |-> TRUE, bufferSize |-> k]>>)>>
    /\ cells = <<>>
    /\ calls = <<>>
    /\ trace = <<>>
    /\ tasks = <<>>
    /\ ret = NoRet

NextShared == Subscribe \/ Tick

SpecShared == InitShared /\ [][NextShared]_vars

\* the values handed to the listeners of all subscriptions made on stream s,
\* in the global order of delivery
Delivered(s) ==
    LET heard == SelectSeq(trace, LAMBDA e : e.ev = "listener" /\ calls[e.id].stream = s)
    IN  [i \in 1..Len(heard) |-> heard[i].v]

\* C32: last and buffer belong to the stream instance, not to a subscription.
\* When one instance is subscribed several times its buffer is the last
\* bufferSize values delivered to all of its subscriptions, in the global order
\* of delivery, and getLast() is the value most recently delivered to any of
\* them; this holds under every interleaving of the timers.
C32_SharedBySubscriptions ==
    \A s \in Ids :
        /\ getLast(streams[s]) = LastOf(Delivered(s))
        /\ Buffering(s) =>
               /\ streams[s].buffer = LastN(Delivered(s), streams[s].bufferSize)
               /\ Len(streams[s].buffer) <= streams[s].bufferSize

C32_Witness ==
    /\ Len(calls) = 2
    /\ streams[1].generator.kind = "counter"
    /\ streams[1].bufferSize = MaxLen * MaxCalls
    /\ Received(1) = <<0, 1>>
    /\ Received(2) = <<0>>
    /\ streams[1].buffer = <<0, 0, 1>>
    /\ getLast(streams[1]) = Some(1)

\* C33: a sequence returned by getBuffer() is a stable snapshot: values
\* delivered through the stream after the call change neither its contents nor
\* its length, so it never holds more than bufferSize elements.
C33_StableSnapshot ==
    (ret.op = "getBuffer" /\ ~ret.threw) =>
        /\ ret.held = ret.value
        /\ Buffering(ret.stream) => Len(ret.held) <= streams[ret.stream].bufferSize

\* the values handed to the listeners the user subscribed to stream s itself,
\* among the first n events of the trace
DeliveredBefore(s, n) ==
    LET heard == SelectSeq(SubSeq(trace, 1, n),
                           LAMBDA e : e.ev = "listener" /\ calls[e.id].stream = s)
    IN  [i \in 1..Len(heard) |-> heard[i].v]

\* subscription c to a.withLatestFrom(b) leaves a alone: a's last value and
\* buffer come from the user's own subscriptions to a only, and so does the
\* first component of every pair
LeavesThisAlone(c) ==
    LET a == Gen(c).src[1]
    IN  /\ getLast(streams[a]) = LastOf(DeliveredBefore(a, Len(trace)))
        /\ streams[a].buffer =
               slice2(DeliveredBefore(a, Len(trace)), 0, BetaBufferSize)
        /\ \A i \in Deliveries(c) :
               trace[i].v[1] = LastOf(DeliveredBefore(a, i))

TimersInto(b) ==
    {t \in 1..Len(tasks) :
        LET last == tasks[t].next[Len(tasks[t].next)]
        IN  \/ /\ last.op = "listener"
               /\ calls[last.id].stream = b
            \/ /\ last.op = "latest"
               /\ \E c \in CallIds :
                      OnLatest(c) /\ Gen(c).src[2] = b /\ last.id = LatestOf(c)}

\* what an array stream b has emitted through b.subscribe in the subscribe
\* calls c, c + 1, ...: its array once per call on b itself and once per call
\* on a withLatestFrom stream that has b as its other stream
RECURSIVE Replays(_, _)
Replays(b, c) ==
    IF c > Len(calls) THEN <<>>
    ELSE (IF calls[c].stream = b \/ (OnLatest(c) /\ Gen(c).src[2] = b)
            THEN streams[b].generator.xs ELSE <<>>) \o Replays(b, c + 1)

\* everything stream b has emitted through b.subscribe
FedThrough(b) ==
    IF streams[b].generator.kind = "from" THEN Replays(b, 1) ELSE Fired(TimersInto(b))

\* C35: a subscription to a.withLatestFrom(b) goes through b.subscribe and so
\* mutates b itself: every value b emits in that subscription becomes b's own
\* last value and enters b's buffer (as far as the beta buffer takes values),
\* besides updating the subscription's private latest value; b.getLast()
\* changes although the user never subscribed to b.
C35_OtherStreamMutated ==
    \A c \in CallIds :
        OnLatest(c) =>
            LET b == Gen(c).src[2]
            IN  /\ getLast(streams[b]) = LastOf(FedThrough(b))
                /\ streams[b].buffer = slice2(FedThrough(b), 0, BetaBufferSize)
                /\ cells[LatestOf(c)] = LastOf(EmittedByOther(c, Len(trace)))

C35_Witness ==
    /\ Len(calls) = 1
    /\ OnLatest(1)
    /\ Gen(1).src = <<1, 2>>
    /\ streams[2].generator.kind = "interval"
    /\ Fired(TimersInto(2)) = <<2, 2>>
    /\ getLast(streams[2]) = Some(2)
    /\ streams[2].buffer = <<2, 2>>
    /\ cells[1] = Some(2)

====
